---- MODULE Spec2Model ----
(***************************************************************************)
(* Login attempt / account lockout state machine of the login controller   *)
(* (loginUser and its helpers).  Every `await` of the controller is one    *)
(* step of a call: the step performs the awaited collaborator's effect on  *)
(* the stored account and then runs the synchronous code that follows it,  *)
(* up to the next `await`.  Several calls may be in flight on the same     *)
(* account; each works on the record it loaded in its own lookup.          *)
(* The collaborators (storage, hashing, token, lockAccount) are modelled   *)
(* by their contracts; each may fail.                                      *)
(***************************************************************************)
EXTENDS Integers, Sequences, FiniteSets, TLC

VARIABLES
    verification,   \* the stored verification record of the one existing account
    storedPassword, \* the credential the stored hash was made from
    now,            \* the wall clock, in milliseconds
    call,           \* call[c]: the state of login call c
    profiles,       \* profiles[id]: the stored profile of the user with that id
    request         \* request[r]: the state of profile request r

loginVars == <<verification, storedPassword, now, call>>
profileVars == <<profiles, request>>
vars == <<verification, storedPassword, now, call, profiles, request>>

----------------------------------------------------------------------------
(* Bounds of the model *)

NumCalls == 2
MaxMinutes == 1
MaxStoredAttempts == 5
ClockSkew == 1
MaxReuseAttempts == 2
NumRequests == 2

(* Program constants *)

MAX_LOGIN_ATTEMPTS == 5
MINUTE_MS == 60 * 1000

\* The fixed duration lockAccount adds to the clock; lockAccount lives outside
\* this controller, the value stands for whatever it uses.
LOCK_DURATION_MS == MINUTE_MS

----------------------------------------------------------------------------
(* Values *)

Calls == 1..NumCalls

\* A Date column that holds no date (null).
NoDate == 0 - 1

\* The clock values the model visits: each whole minute and the millisecond after it.
Times == {m * MINUTE_MS + o : m \in 0..MaxMinutes, o \in 0..1}

Usernames == {"alice", "ghost"}
ExistingUsername == "alice"
Passwords == {"hunter2", "tmp12345"}

InitBlockExpirations == {NoDate, 1, MINUTE_MS + 1}

\* What getUserByUsername resolves to when no row matches.
NullUser ==
    [username |-> "", password |-> "",
     verification |-> [isEmailVerified |-> FALSE, isPhoneVerified |-> FALSE,
                       loginAttempts |-> 0, blockExpiration |-> NoDate]]

\* One res.status(s).json({...}) call.
Response(status, msg, arg, token, flag) ==
    [status |-> status, msg |-> msg, arg |-> arg, token |-> token, flag |-> flag]

IdleCall ==
    [pc |-> "idle", username |-> "", password |-> "", user |-> NullUser,
     res |-> <<>>, uncaught |-> FALSE, faulted |-> FALSE,
     updatedLoginAttempts |-> 0, log |-> <<>>]

----------------------------------------------------------------------------
(* The response object.  res holds every json() call made on it, in order; *)
(* the first one is the response the client receives.  A json() call on a  *)
(* response whose headers were already sent throws.                        *)

HeadersSent(res) == Len(res) > 0

Json(res, r) == Append(res, r)

handleUnverifiedUser(res) == Json(res, Response(400, "userNotVerified", "", "", ""))

sendBadRequest(res, msg, arg) == Json(res, Response(400, msg, arg, "", ""))

handleErrorResponse(res) == Json(res, Response(500, "databaseError", "", "", ""))

sendAccountBlockedResponse(res, timeLeft) ==
    Json(res, Response(400, "accountLockedv1", timeLeft, "", ""))

----------------------------------------------------------------------------
(* Pure helpers of the controller *)

\* Math.ceil(a / b) for b > 0.
Ceil(a, b) == 0 - ((0 - a) \div b)

calculateTimeLeft(blockExpiration, currentDate) ==
    ToString(Ceil(blockExpiration - currentDate, MINUTE_MS))

isAccountBlockedInclusive(user, currentDate) ==
    /\ user.verification.blockExpiration # NoDate
    /\ user.verification.blockExpiration >= currentDate

\* blockExpiration && blockExpiration > currentDate
isAccountBlocked(user, currentDate) ==
    /\ user.verification.blockExpiration # NoDate
    /\ user.verification.blockExpiration > currentDate

\* user.verification.loginAttempts || (0 + 1)
UpdatedLoginAttemptsPrecedence(user) ==
    IF user.verification.loginAttempts # 0 THEN user.verification.loginAttempts ELSE 1

\* (user.verification.loginAttempts || 0) + 1
UpdatedLoginAttempts(user) == user.verification.loginAttempts + 1

ReachedThresholdStrict(updatedLoginAttempts) == updatedLoginAttempts > MAX_LOGIN_ATTEMPTS

\* updatedLoginAttempts >= MAX_LOGIN_ATTEMPTS
ReachedThreshold(updatedLoginAttempts) == updatedLoginAttempts >= MAX_LOGIN_ATTEMPTS

\* bcrypt comparison of the presented password with the stored hash.
validatePassword(user, password) == password = user.password

generateAuthToken(user) == "token:" \o user.username

IsRecoveryPasswordAtMost(password) == Len(password) <= 8

\* password.length === 8
IsRecoveryPassword(password) == Len(password) = 8

handleSuccessfulLogin(user, res, password) ==
    Json(res, Response(200,
                       IF IsRecoveryPassword(password) THEN "recoveryLogin" ELSE "userLoggedIn",
                       "",
                       generateAuthToken(user),
                       IF IsRecoveryPassword(password) THEN "randomPassword" ELSE "undefined"))

----------------------------------------------------------------------------
(* Profile controller (getUserProfile, updateUserProfile): values.  Of the    *)
(* profile's fields, firstName stands for the four that are assigned with     *)
(* `req.body.x || old` and profileType for the two assigned with              *)
(* `req.body.x !== undefined ? req.body.x : old`.                             *)

Requests == 1..NumRequests

\* The ids of the rows of the users table, and the rol column of each.
UserIds == {1, 2}
Rol(id) == IF id = 1 THEN "admin" ELSE "user"

\* req.user: absent, or the userId and rol the session carries.
NoRequester == [userId |-> 0, rol |-> ""]
Requesters ==
    {NoRequester, [userId |-> 1, rol |-> "admin"],
     [userId |-> 2, rol |-> "user"], [userId |-> 7, rol |-> "user"]}

\* req.params.userId: a string.
UserIdParams == {"1", "2", "7", "x"}

\* A field the request body does not have.
Undefined == "undefined"
BodyFirstNames == {Undefined, "", "Bo"}
BodyProfileTypes == {Undefined, ""}

DefaultProfile == [firstName |-> "Ana", profileType |-> "public"]
NoProfile == [firstName |-> "", profileType |-> ""]

\* Number(userId): a number, or NaN.
Number(userId) ==
    CASE userId = "1" -> [nan |-> FALSE, value |-> 1]
      [] userId = "2" -> [nan |-> FALSE, value |-> 2]
      [] userId = "7" -> [nan |-> FALSE, value |-> 7]
      [] OTHER -> [nan |-> TRUE, value |-> 0]

\* n === id for a Number n: NaN equals nothing, and an absent id (undefined)
\* equals no number.
StrictEquals(n, requester) ==
    /\ requester # NoRequester
    /\ ~n.nan
    /\ n.value = requester.userId

\* One res.status(s).json({...}) of the profile controller.
NoData == [userId |-> 0, rol |-> "", firstName |-> "", profileType |-> ""]
ProfileResponse(status, msg, data) == [status |-> status, msg |-> msg, data |-> data]

\* The JSON body both handlers answer with.
ProfileData(id, userProfile) ==
    [userId |-> id, rol |-> Rol(id),
     firstName |-> userProfile.firstName, profileType |-> userProfile.profileType]

IdleRequest ==
    [pc |-> "idle", kind |-> "", requester |-> NoRequester, userId |-> "",
     id |-> 0, loaded |-> NoProfile, userProfile |-> NoProfile,
     res |-> <<>>, faulted |-> FALSE]

----------------------------------------------------------------------------
Init ==
    /\ verification \in [isEmailVerified : BOOLEAN, isPhoneVerified : BOOLEAN,
                         loginAttempts : 0..MaxStoredAttempts,
                         blockExpiration : InitBlockExpirations]
    /\ storedPassword \in Passwords
    /\ now = 0
    /\ call = [c \in Calls |-> IdleCall]
    /\ profiles = [id \in UserIds |-> DefaultProfile]
    /\ request = [r \in Requests |-> IdleRequest]

----------------------------------------------------------------------------
(* The verification and lockout gates (synchronous code of verifyUser) *)

\* isEmailVerified: the value it returns.
isEmailVerified(user) == user.verification.isEmailVerified

\* isPhoneVerified: the value it returns.
isPhoneVerified(user) == user.verification.isPhoneVerified

\* isEmailVerified: what it writes on res.
EmailCheckResponse(user, res) ==
    IF ~isEmailVerified(user) THEN handleUnverifiedUser(res) ELSE res

\* isPhoneVerified: what it writes on res.
PhoneCheckResponse(user, res) ==
    IF ~isPhoneVerified(user)
    THEN Json(res, Response(400, "numberNotVerified", "", "", ""))
    ELSE res

BothVerifiedEither(user) == isEmailVerified(user) \/ isPhoneVerified(user)

\* The value isUserVerified returns when neither check throws.
BothVerified(user) == isEmailVerified(user) /\ isPhoneVerified(user)

isUserVerifiedPhoneFirst(user, res, strict) ==
    LET r1 == PhoneCheckResponse(user, res)
        r2 == EmailCheckResponse(user, r1)
    IN  [res   |-> r2,
         threw |-> strict /\ ~isEmailVerified(user) /\ HeadersSent(r1),
         ok    |-> BothVerified(user)]

\* Both checks run, each writing its own response.  threw: the phone check's
\* json() was called on a response the email check had already sent, and the
\* response object rejects that (strict: Express's does).
isUserVerified(user, res, strict) ==
    LET r1 == EmailCheckResponse(user, res)
        r2 == PhoneCheckResponse(user, r1)
    IN  [res   |-> r2,
         threw |-> strict /\ ~isPhoneVerified(user) /\ HeadersSent(r1),
         ok    |-> BothVerified(user)]

\* currentDate is the clock isAccountBlocked reads, timeLeftDate the clock read
\* again for calculateTimeLeft.
handleBlockExpiration(user, res, currentDate, timeLeftDate) ==
    IF isAccountBlocked(user, currentDate)
    THEN [res |-> sendAccountBlockedResponse(
                      res, calculateTimeLeft(user.verification.blockExpiration,
                                             timeLeftDate)),
          blocked |-> TRUE]
    ELSE [res |-> res, blocked |-> FALSE]

\* verifyUser with the lock test ahead of the verification checks.
verifyUserLockFirst(username, user, res, currentDate, timeLeftDate, strict) ==
    IF user = NullUser
    THEN [res |-> sendBadRequest(res, "userNotExists", username),
          threw |-> FALSE, passed |-> FALSE, clock |-> 0]
    ELSE LET b == handleBlockExpiration(user, res, currentDate, timeLeftDate) IN
         IF b.blocked
         THEN [res |-> b.res, threw |-> FALSE, passed |-> FALSE, clock |-> 2]
         ELSE LET v == isUserVerified(user, res, strict) IN
              [res |-> v.res, threw |-> v.threw, passed |-> ~v.threw /\ v.ok,
               clock |-> 1]

\* verifyUser without the test for a missing user.
verifyUserNoLookupGate(username, user, res, currentDate, timeLeftDate, strict) ==
    IF user = NullUser
    THEN [res |-> res, threw |-> FALSE, passed |-> TRUE, clock |-> 0]
    ELSE LET v == isUserVerified(user, res, strict) IN
         IF v.threw \/ ~v.ok
         THEN [res |-> v.res, threw |-> v.threw, passed |-> FALSE, clock |-> 0]
         ELSE LET b == handleBlockExpiration(user, v.res, currentDate, timeLeftDate) IN
              [res |-> b.res, threw |-> FALSE, passed |-> ~b.blocked,
               clock |-> IF b.blocked THEN 2 ELSE 1]

\* verifyUser after the lookup.  passed: it returns the user (not null);
\* clock: the number of clock reads it made.
verifyUser(username, user, res, currentDate, timeLeftDate, strict) ==
    IF user = NullUser
    THEN [res |-> sendBadRequest(res, "userNotExists", username),
          threw |-> FALSE, passed |-> FALSE, clock |-> 0]
    ELSE LET v == isUserVerified(user, res, strict) IN
         IF v.threw \/ ~v.ok
         THEN [res |-> v.res, threw |-> v.threw, passed |-> FALSE, clock |-> 0]
         ELSE LET b == handleBlockExpiration(user, v.res, currentDate, timeLeftDate) IN
              [res |-> b.res, threw |-> FALSE, passed |-> ~b.blocked,
               clock |-> IF b.blocked THEN 2 ELSE 1]

----------------------------------------------------------------------------
(* Steps of a login call *)

\* The handler has returned: the password and the locals are gone; the username
\* asked for and what was answered remain.
Done(k) ==
    [k EXCEPT !.pc = "done", !.password = "",
              !.user = NullUser, !.updatedLoginAttempts = 0]

\* The catch block of loginUser: handleErrorResponse; its json() throws out of
\* the handler when a response was already sent.
Caught(k) ==
    Done([k EXCEPT !.res = handleErrorResponse(k.res),
                   !.uncaught = HeadersSent(k.res)])

\* A rejection that no try/catch of the handler sees.
Escaped(k) == Done([k EXCEPT !.uncaught = TRUE])

\* What the storage query returns for a username: a copy of the stored record.
getUserByUsername(username) ==
    IF username = ExistingUsername
    THEN [username |-> username, password |-> storedPassword,
          verification |-> verification]
    ELSE NullUser

\* The clock values a second read may return after a first read of t.
ClockReads(t) == {u \in Times : t <= u /\ u <= t + ClockSkew}

\* loginUser is entered with the request's username and password and calls
\* verifyUser: getUserByUsername settles and the rest of verifyUser runs on the
\* loaded record; a user that passes has validatePassword called on it.  Calls
\* are numbered in the order in which they arrive.
LoginUser(c, username, password, fail, timeLeftDate, strict) ==
    /\ call[c].pc = "idle"
    /\ \A d \in Calls : d < c => call[d].pc # "idle"
    /\ timeLeftDate \in ClockReads(now)
    /\ LET k    == [call[c] EXCEPT !.username = username, !.password = password,
                                   !.log = <<"getUserByUsername">>]
           user == getUserByUsername(username)
           out  == verifyUser(username, user, k.res, now, timeLeftDate, strict)
           k1   == [k EXCEPT !.user = user, !.res = out.res]
       IN  IF fail
           THEN /\ timeLeftDate = now
                /\ strict
                /\ now' = now
                /\ call' = [call EXCEPT ![c] = Caught([k EXCEPT !.faulted = TRUE])]
           ELSE /\ (out.clock < 2) => (timeLeftDate = now)
                /\ (Len(out.res) < 2) => strict
                /\ now' = timeLeftDate
                /\ call' = [call EXCEPT ![c] =
                               IF out.threw THEN Caught(k1)
                               ELSE IF ~out.passed THEN Done(k1)
                               ELSE [k1 EXCEPT !.pc = "validatePassword",
                                               !.log = Append(@, "validatePassword")]]
    /\ UNCHANGED <<verification, storedPassword, profiles, request>>

\* validatePassword settles; a mismatch enters handleIncorrectPassword, which
\* computes the new count from the loaded record and calls update.
Validate(c, fail) ==
    /\ call[c].pc = "validatePassword"
    /\ call' = [call EXCEPT ![c] =
                    IF fail
                    THEN Caught([@ EXCEPT !.faulted = TRUE])
                    ELSE IF ~validatePassword(@.user, @.password)
                    THEN [@ EXCEPT !.pc = "increment",
                                   !.updatedLoginAttempts = UpdatedLoginAttempts(call[c].user),
                                   !.log = Append(@, "update")]
                    ELSE [@ EXCEPT !.pc = "reset",
                                   !.log = Append(@, "resetLoginAttempts")]]
    /\ UNCHANGED <<verification, storedPassword, now, profiles, request>>

\* user.verification.update({ loginAttempts }) settles: the value computed from
\* the loaded record is stored.  loginUser returns the promise of
\* handleIncorrectPassword without awaiting it, so a rejection leaves the try
\* block unseen.
Increment(c, fail) ==
    /\ call[c].pc = "increment"
    /\ IF fail
       THEN /\ call' = [call EXCEPT ![c] = Escaped([@ EXCEPT !.faulted = TRUE])]
            /\ UNCHANGED verification
       ELSE LET n == call[c].updatedLoginAttempts IN
            /\ verification' = [verification EXCEPT !.loginAttempts = n]
            /\ call' = [call EXCEPT ![c] =
                           IF ReachedThreshold(n)
                           THEN [@ EXCEPT !.pc = "lock",
                                          !.user.verification.loginAttempts = n,
                                          !.log = Append(@, "lockAccount")]
                           ELSE Done([@ EXCEPT !.res = sendBadRequest(
                                                         @, "incorrectPassword",
                                                         ToString(n))])]
    /\ UNCHANGED <<storedPassword, now, profiles, request>>

\* The expiration lockAccount stores.
lockAccount(currentDate) == currentDate + LOCK_DURATION_MS

\* handleLockedAccount answering without the lockAccount before it.
LockNotStored(c, fail) ==
    /\ call[c].pc = "lock"
    /\ ~fail
    /\ call' = [call EXCEPT ![c] =
                   Done([@ EXCEPT !.res = Json(@, Response(400, "accountLocked",
                                                           "", "", ""))])]
    /\ UNCHANGED <<verification, storedPassword, now, profiles, request>>

\* A lock that also gives the allowance back.
LockResetsCount(c, fail) ==
    /\ call[c].pc = "lock"
    /\ ~fail
    /\ verification' = [verification EXCEPT !.blockExpiration = lockAccount(now),
                                            !.loginAttempts = 0]
    /\ call' = [call EXCEPT ![c] =
                   Done([@ EXCEPT !.res = Json(@, Response(400, "accountLocked",
                                                           "", "", ""))])]
    /\ UNCHANGED <<storedPassword, now, profiles, request>>

\* lockAccount settles inside handleLockedAccount, which then answers.
Lock(c, fail) ==
    /\ call[c].pc = "lock"
    /\ IF fail
       THEN /\ call' = [call EXCEPT ![c] = Escaped([@ EXCEPT !.faulted = TRUE])]
            /\ UNCHANGED verification
       ELSE /\ verification' = [verification EXCEPT !.blockExpiration = lockAccount(now)]
            /\ call' = [call EXCEPT ![c] =
                           Done([@ EXCEPT !.res = Json(@, Response(400, "accountLocked",
                                                                   "", "", ""))])]
    /\ UNCHANGED <<storedPassword, now, profiles, request>>

\* The count resetLoginAttempts stores.
resetLoginAttempts == 0

\* A successful login that also calls unlockAccount.
ResetUnlocks(c, fail, tokenFail) ==
    /\ call[c].pc = "reset"
    /\ ~fail /\ ~tokenFail
    /\ verification' = [verification EXCEPT !.loginAttempts = resetLoginAttempts,
                                            !.blockExpiration = NoDate]
    /\ call' = [call EXCEPT ![c] =
                   Done([@ EXCEPT !.log = Append(Append(@, "unlockAccount"),
                                                 "generateAuthToken"),
                                  !.res = handleSuccessfulLogin(
                                              call[c].user, @, call[c].password)])]
    /\ UNCHANGED <<storedPassword, now, profiles, request>>

\* handleSuccessfulLogin without the resetLoginAttempts before it.
ResetSkipped(c, fail, tokenFail) ==
    /\ call[c].pc = "reset"
    /\ ~fail /\ ~tokenFail
    /\ call' = [call EXCEPT ![c] =
                   Done([@ EXCEPT !.log = Append(@, "generateAuthToken"),
                                  !.res = handleSuccessfulLogin(
                                              call[c].user, @, call[c].password)])]
    /\ UNCHANGED <<verification, storedPassword, now, profiles, request>>

\* resetLoginAttempts settles; handleSuccessfulLogin then mints the token and
\* answers.  Both are inside the try block.
Reset(c, fail, tokenFail) ==
    /\ call[c].pc = "reset"
    /\ ~(fail /\ tokenFail)
    /\ IF fail
       THEN /\ call' = [call EXCEPT ![c] = Caught([@ EXCEPT !.faulted = TRUE])]
            /\ UNCHANGED verification
       ELSE /\ verification' = [verification EXCEPT !.loginAttempts = resetLoginAttempts]
            /\ call' = [call EXCEPT ![c] =
                           IF tokenFail
                           THEN Caught([@ EXCEPT !.faulted = TRUE,
                                                 !.log = Append(@, "generateAuthToken")])
                           ELSE Done([@ EXCEPT !.log = Append(@, "generateAuthToken"),
                                               !.res = handleSuccessfulLogin(
                                                           call[c].user, @, call[c].password)])]
    /\ UNCHANGED <<storedPassword, now, profiles, request>>

\* Time passes.
Tick ==
    /\ \E t \in Times :
          /\ t > now
          /\ \A u \in Times : u > now => t <= u
          /\ now' = t
    /\ UNCHANGED <<verification, storedPassword, call, profiles, request>>

Next ==
    \/ \E c \in Calls, u \in Usernames, p \in Passwords,
          fail \in BOOLEAN, t \in ClockReads(now), strict \in BOOLEAN :
          LoginUser(c, u, p, fail, t, strict)
    \/ \E c \in Calls, fail \in BOOLEAN : Validate(c, fail)
    \/ \E c \in Calls, fail \in BOOLEAN : Increment(c, fail)
    \/ \E c \in Calls, fail \in BOOLEAN : Lock(c, fail)
    \/ \E c \in Calls, fail \in BOOLEAN, tokenFail \in BOOLEAN : Reset(c, fail, tokenFail)
    \/ Tick

Spec == Init /\ [][Next]_vars

\* One call at a time: a call arrives only when no other call is in flight.
InFlight(c) == call[c].pc \notin {"idle", "done"}

SeqLoginUser(c, username, password, fail, timeLeftDate, strict) ==
    /\ \A d \in Calls : ~InFlight(d)
    /\ LoginUser(c, username, password, fail, timeLeftDate, strict)

NextSeq ==
    \/ \E c \in Calls, u \in Usernames, p \in Passwords,
          fail \in BOOLEAN, t \in ClockReads(now), strict \in BOOLEAN :
          SeqLoginUser(c, u, p, fail, t, strict)
    \/ \E c \in Calls, fail \in BOOLEAN : Validate(c, fail)
    \/ \E c \in Calls, fail \in BOOLEAN : Increment(c, fail)
    \/ \E c \in Calls, fail \in BOOLEAN : Lock(c, fail)
    \/ \E c \in Calls, fail \in BOOLEAN, tokenFail \in BOOLEAN : Reset(c, fail, tokenFail)
    \/ Tick

SeqSpec == Init /\ [][NextSeq]_vars

\* The response of a finished call has been delivered and the request is over;
\* a later request takes its place.  With this, any number of calls can follow
\* one another while NumCalls of them overlap.  Requests keep following one
\* another while the stored count is below MaxReuseAttempts.
Recycle(c) ==
    /\ call[c].pc = "done"
    /\ verification.loginAttempts < MaxReuseAttempts
    /\ call' = [call EXCEPT ![c] = IdleCall]
    /\ UNCHANGED <<verification, storedPassword, now, profiles, request>>

NextReuse ==
    \/ \E c \in Calls, u \in Usernames, p \in Passwords,
          fail \in BOOLEAN, t \in ClockReads(now), strict \in BOOLEAN :
          LoginUser(c, u, p, fail, t, strict)
    \/ \E c \in Calls, fail \in BOOLEAN : Validate(c, fail)
    \/ \E c \in Calls, fail \in BOOLEAN : Increment(c, fail)
    \/ \E c \in Calls, fail \in BOOLEAN : Lock(c, fail)
    \/ \E c \in Calls, fail \in BOOLEAN, tokenFail \in BOOLEAN : Reset(c, fail, tokenFail)
    \/ \E c \in Calls : Recycle(c)
    \/ Tick

\* A verified account that has never been locked.
InitReuse ==
    /\ Init
    /\ verification.isEmailVerified
    /\ verification.isPhoneVerified
    /\ verification.blockExpiration = NoDate

ReuseSpec == InitReuse /\ [][NextReuse]_vars

\* No collaborator fails: every lookup, comparison, write and token minting
\* settles.
NextNoFault ==
    \/ \E c \in Calls, u \in Usernames, p \in Passwords,
          t \in ClockReads(now), strict \in BOOLEAN :
          LoginUser(c, u, p, FALSE, t, strict)
    \/ \E c \in Calls : Validate(c, FALSE)
    \/ \E c \in Calls : Increment(c, FALSE)
    \/ \E c \in Calls : Lock(c, FALSE)
    \/ \E c \in Calls : Reset(c, FALSE, FALSE)
    \/ Tick

\* An account record as calls without failures leave it: a count at the
\* threshold comes with a lock.
InitNoFault ==
    /\ Init
    /\ verification.loginAttempts >= MAX_LOGIN_ATTEMPTS
           => verification.blockExpiration # NoDate

NoFaultSpec == InitNoFault /\ [][NextNoFault]_vars

----------------------------------------------------------------------------
(* Profile controller: steps *)

\* Auth.findOne({ where: { id: userId }, include: UserProfile }): the id of the
\* row whose id the parameter spells, or 0 when there is none (null).
NoRow == 0
findOne(userId) ==
    IF \E id \in UserIds : ToString(id) = userId
    THEN CHOOSE id \in UserIds : ToString(id) = userId
    ELSE NoRow

\* Any requester the session middleware put on the request may pass.
isAuthorizedAnyUser(requester, userId) == requester # NoRequester

\* loggedInUserRole === 'admin' || Number(userId) === loggedInUserId
isAuthorized(requester, userId) ==
    \/ requester.rol = "admin"
    \/ StrictEquals(Number(userId), requester)

\* The assignments of updateUserProfile to the loaded profile instance.
AssignBody(userProfile, firstName, profileType) ==
    [userProfile EXCEPT
        !.firstName = IF firstName \in {Undefined, ""} THEN @ ELSE firstName,
        !.profileType = IF profileType # Undefined THEN profileType ELSE @]

\* The handler has returned: its locals are gone; who asked for what, and the
\* answer, remain.
Returned(q) ==
    [q EXCEPT !.pc = "done", !.id = 0, !.loaded = NoProfile, !.userProfile = NoProfile]

Answer(q, status, msg, data) ==
    Returned([q EXCEPT !.res = Append(@, ProfileResponse(status, msg, data))])

\* The catch block of both handlers.
ServerError(q) == Answer([q EXCEPT !.faulted = TRUE], 500, "serverError", NoData)

\* getUserProfile: findOne settles and the handler answers.  Requests are
\* numbered in the order in which they arrive.
GetUserProfile(r, requester, userId, fail) ==
    /\ request[r].pc = "idle"
    /\ \A d \in Requests : d < r => request[d].pc # "idle"
    /\ LET q  == [request[r] EXCEPT !.kind = "get", !.requester = requester,
                                    !.userId = userId]
           id == findOne(userId)
       IN  request' = [request EXCEPT ![r] =
               IF fail THEN ServerError(q)
               ELSE IF id = NoRow THEN Answer(q, 404, "userNotFound", NoData)
               ELSE IF isAuthorized(requester, userId)
               THEN Answer(q, 200, "", ProfileData(id, profiles[id]))
               ELSE Answer(q, 403, "accessDenied", NoData)]
    /\ UNCHANGED <<profiles, verification, storedPassword, now, call>>

\* updateUserProfile up to its save(): findOne settles, the permission is
\* tested and the body's fields are assigned to the loaded profile.
UpdateUserProfile(r, requester, userId, firstName, profileType, fail) ==
    /\ request[r].pc = "idle"
    /\ \A d \in Requests : d < r => request[d].pc # "idle"
    /\ LET q  == [request[r] EXCEPT !.kind = "update", !.requester = requester,
                                    !.userId = userId]
           id == findOne(userId)
       IN  request' = [request EXCEPT ![r] =
               IF fail THEN ServerError(q)
               ELSE IF id = NoRow THEN Answer(q, 404, "userNotFound", NoData)
               ELSE IF isAuthorized(requester, userId)
               THEN [q EXCEPT !.pc = "save", !.id = id, !.loaded = profiles[id],
                              !.userProfile = AssignBody(profiles[id], firstName,
                                                         profileType)]
               ELSE Answer(q, 403, "accessDenied", NoData)]
    /\ UNCHANGED <<profiles, verification, storedPassword, now, call>>

\* userProfile.save() settles: the fields whose value was changed on the
\* instance are written; the handler answers with the instance's values.
Save(r, fail) ==
    /\ request[r].pc = "save"
    /\ LET q == request[r] IN
       IF fail
       THEN /\ request' = [request EXCEPT ![r] = ServerError(q)]
            /\ UNCHANGED profiles
       ELSE /\ profiles' = [profiles EXCEPT ![q.id] =
                   [firstName |-> IF q.userProfile.firstName # q.loaded.firstName
                                  THEN q.userProfile.firstName ELSE @.firstName,
                    profileType |-> IF q.userProfile.profileType # q.loaded.profileType
                                    THEN q.userProfile.profileType ELSE @.profileType]]
            /\ request' = [request EXCEPT ![r] =
                              Answer(q, 200, "", ProfileData(q.id, q.userProfile))]
    /\ UNCHANGED <<verification, storedPassword, now, call>>

NextProfile ==
    \/ \E r \in Requests, requester \in Requesters, userId \in UserIdParams,
          fail \in BOOLEAN : GetUserProfile(r, requester, userId, fail)
    \/ \E r \in Requests, requester \in Requesters, userId \in UserIdParams,
          firstName \in BodyFirstNames, profileType \in BodyProfileTypes,
          fail \in BOOLEAN :
          UpdateUserProfile(r, requester, userId, firstName, profileType, fail)
    \/ \E r \in Requests, fail \in BOOLEAN : Save(r, fail)

\* The profile endpoints on their own: no login call is made.
InitProfile ==
    /\ verification = NullUser.verification
    /\ storedPassword = "hunter2"
    /\ now = 0
    /\ call = [c \in Calls |-> IdleCall]
    /\ profiles = [id \in UserIds |-> DefaultProfile]
    /\ request = [r \in Requests |-> IdleRequest]

ProfileSpec == InitProfile /\ [][NextProfile]_vars

----------------------------------------------------------------------------
(* Vocabulary of the properties *)

\* This step is a step of call c.
StepOf(c) == call'[c] # call[c]

\* Call c arrives in this step, asks for the existing account, and its lookup
\* does not fail.
Arrives(c) ==
    /\ call[c].pc = "idle"
    /\ call'[c].pc # "idle"
    /\ call'[c].username = ExistingUsername
    /\ ~call'[c].faulted

Unverified == ~verification.isEmailVerified \/ ~verification.isPhoneVerified

EmailNotVerified == Response(400, "userNotVerified", "", "", "")
PhoneNotVerified == Response(400, "numberNotVerified", "", "", "")
FreshlyLocked == Response(400, "accountLocked", "", "", "")
InfrastructureError == Response(500, "databaseError", "", "", "")
AccountLocked(minutes) == Response(400, "accountLockedv1", minutes, "", "")
IncorrectCredential(n) == Response(400, "incorrectPassword", ToString(n), "", "")

----------------------------------------------------------------------------
\* C1: no login call answers Success (status 200, with a token) on an account
\* whose email or phone flag is false, whatever the credential, the stored
\* loginAttempts and the stored blockExpiration.
C1_NoSuccessWhileUnverified ==
    \A c \in Calls :
        Unverified => \A i \in 1..Len(call[c].res) : call[c].res[i].status # 200

\* A call on an account that only lacks the phone flag (no failed attempts, no
\* lock) has ended, rejected at the verification gate before any credential check.
C1_Witness ==
    \E c \in Calls :
        /\ call[c].pc = "done"
        /\ verification.isEmailVerified /\ ~verification.isPhoneVerified
        /\ verification.loginAttempts = 0
        /\ verification.blockExpiration = NoDate
        /\ call[c].res = <<PhoneNotVerified>>
        /\ call[c].log = <<"getUserByUsername">>

\* C2: every login call in which no collaborator fails ends with exactly one
\* json() call on its response and without a fault leaving the handler, for
\* every account state.
C2_ExactlyOneOutcome ==
    \A c \in Calls :
        (call[c].pc = "done" /\ ~call[c].faulted)
            => (Len(call[c].res) = 1 /\ ~call[c].uncaught)

\* C3: on an account whose email flag is false, a login call whose lookup
\* succeeds is answered EmailNotVerified (the first response written, the one
\* the client receives) after calling no collaborator but the lookup, and no
\* step changes the stored loginAttempts or blockExpiration.
C3_EmailNotVerifiedFirst ==
    /\ [](\A c \in Calls :
            (/\ call[c].pc = "done"
             /\ call[c].username = ExistingUsername
             /\ ~call[c].faulted
             /\ ~verification.isEmailVerified)
                => /\ Len(call[c].res) >= 1
                   /\ call[c].res[1] = EmailNotVerified
                   /\ call[c].log = <<"getUserByUsername">>)
    /\ [][~verification.isEmailVerified => verification' = verification]_vars

\* A call on an account with neither flag set and a lock in the future has been
\* answered EmailNotVerified; the stored count and expiration are as they were.
C3_Witness ==
    \E c \in Calls :
        /\ call[c].pc = "done"
        /\ ~verification.isEmailVerified /\ ~verification.isPhoneVerified
        /\ verification.blockExpiration > now
        /\ verification.loginAttempts = 4
        /\ call[c].res[1] = EmailNotVerified

\* C4: a call on a verified account whose blockExpiration is in the future at
\* the lock test is answered AccountLocked with minutes
\* ceil((blockExpiration - now) / 60000), and the minutes are at least 1, also
\* when the clock advances before the time left is computed.
C4_LockedAtLeastOneMinute ==
    [][\A c \in Calls :
          (/\ Arrives(c)
           /\ ~Unverified
           /\ verification.blockExpiration # NoDate
           /\ verification.blockExpiration > now)
              => /\ call'[c].pc = "done"
                 /\ call'[c].res =
                        <<AccountLocked(ToString(Ceil(verification.blockExpiration - now',
                                                      MINUTE_MS)))>>
                 /\ Ceil(verification.blockExpiration - now', MINUTE_MS) >= 1]_vars

\* C5: in a call with a wrong credential on a record whose loginAttempts n has
\* n + 1 >= 5, the new count n + 1 is stored, lockAccount is then called in the
\* same call and stores blockExpiration, and the answer is AccountLocked; no
\* IncorrectCredential is written.
C5_ThresholdLocks ==
    [][\A c \in Calls : (StepOf(c) /\ ~call'[c].faulted) =>
          /\ (/\ call[c].pc = "validatePassword"
              /\ call[c].password # storedPassword
              /\ call[c].user.verification.loginAttempts + 1 >= MAX_LOGIN_ATTEMPTS)
                 => /\ call'[c].pc = "increment"
                    /\ call'[c].updatedLoginAttempts =
                           call[c].user.verification.loginAttempts + 1
          /\ (/\ call[c].pc = "increment"
              /\ call[c].updatedLoginAttempts >= MAX_LOGIN_ATTEMPTS)
                 => /\ verification'.loginAttempts = call[c].updatedLoginAttempts
                    /\ call'[c].pc = "lock"
                    /\ call'[c].log = Append(call[c].log, "lockAccount")
                    /\ call'[c].res = <<>>
          /\ (call[c].pc = "lock")
                 => /\ verification'.blockExpiration = now + LOCK_DURATION_MS
                    /\ verification'.loginAttempts = verification.loginAttempts
                    /\ call'[c].pc = "done"
                    /\ call'[c].res = <<FreshlyLocked>>]_vars

\* A fifth wrong attempt has just locked the account: the count is 5, the
\* expiration is a lock duration from now, the answer is AccountLocked.
C5_Witness ==
    \E c \in Calls :
        /\ call[c].pc = "done"
        /\ call[c].res = <<FreshlyLocked>>
        /\ call[c].log = <<"getUserByUsername", "validatePassword", "update", "lockAccount">>
        /\ verification.loginAttempts = MAX_LOGIN_ATTEMPTS
        /\ verification.blockExpiration = now + LOCK_DURATION_MS

\* C6: with calls made one after the other, a wrong credential on a verified,
\* not-locked account whose stored loginAttempts is n with n + 1 < 5 is answered
\* IncorrectCredential(n + 1), stores n + 1, calls no lockAccount and leaves
\* blockExpiration as it was.
C6_IncorrectCredentialCount ==
    [][\A c \in Calls : (StepOf(c) /\ ~call'[c].faulted) =>
          /\ (/\ call[c].pc = "validatePassword"
              /\ call[c].password # storedPassword
              /\ verification.loginAttempts + 1 < MAX_LOGIN_ATTEMPTS)
                 => /\ call'[c].pc = "increment"
                    /\ call'[c].updatedLoginAttempts = verification.loginAttempts + 1
          /\ (/\ call[c].pc = "increment"
              /\ call[c].updatedLoginAttempts < MAX_LOGIN_ATTEMPTS)
                 => /\ call[c].updatedLoginAttempts = verification.loginAttempts + 1
                    /\ verification'.loginAttempts = verification.loginAttempts + 1
                    /\ verification'.blockExpiration = verification.blockExpiration
                    /\ call'[c].pc = "done"
                    /\ call'[c].res = <<IncorrectCredential(verification.loginAttempts + 1)>>
                    /\ call'[c].log = <<"getUserByUsername", "validatePassword", "update">>]_vars

\* A third wrong attempt on a never-locked account has been answered with the
\* count 3, which is the stored count.
C6_Witness ==
    \E c \in Calls :
        /\ call[c].pc = "done"
        /\ call[c].res = <<IncorrectCredential(3)>>
        /\ verification.loginAttempts = 3
        /\ verification.blockExpiration = NoDate

\* C7: a call on a verified, not-locked account passes the gates; with the
\* correct credential and no collaborator failure it calls resetLoginAttempts,
\* which stores 0, and only then mints the token and answers Success: the stored
\* loginAttempts is 0 when the call ends, and already 0 when the token is minted.
C7_CorrectCredentialResets ==
    [][\A c \in Calls : StepOf(c) =>
          /\ (/\ Arrives(c)
              /\ ~Unverified
              /\ ~(verification.blockExpiration # NoDate
                   /\ verification.blockExpiration > now))
                 => call'[c].pc = "validatePassword"
          /\ (/\ call[c].pc = "validatePassword"
              /\ ~call'[c].faulted
              /\ call[c].password = storedPassword)
                 => /\ call'[c].pc = "reset"
                    /\ call'[c].res = <<>>
          /\ (call[c].pc = "reset" /\ ~call'[c].faulted)
                 => /\ verification'.loginAttempts = 0
                    /\ call'[c].pc = "done"
                    /\ Len(call'[c].res) = 1
                    /\ call'[c].res[1].status = 200
                    /\ call'[c].res[1].token = generateAuthToken(call[c].user)
          /\ (/\ call[c].pc = "reset"
              /\ call'[c].log = Append(call[c].log, "generateAuthToken"))
                 => verification'.loginAttempts = 0]_vars

\* After a wrong attempt was counted, a call with the correct credential has
\* been answered Success and the stored count is 0.
C7_Witness ==
    \E c, d \in Calls :
        /\ call[c].res = <<IncorrectCredential(4)>>
        /\ call[d].pc = "done"
        /\ Len(call[d].res) = 1
        /\ call[d].res[1].status = 200
        /\ verification.loginAttempts = 0

\* C8: lockAccount at time T stores blockExpiration = T + D.  A call on the
\* verified account that finds blockExpiration = X set is answered AccountLocked
\* when its lock test reads a clock before X, and passes the lockout gate to the
\* credential check when its lock test reads a clock at or after X; the gate
\* leaves the stored blockExpiration as it was.
C8_LockWindow ==
    [][\A c \in Calls :
          /\ (Arrives(c) /\ ~Unverified /\ verification.blockExpiration # NoDate)
                => /\ (now < verification.blockExpiration)
                          => /\ call'[c].pc = "done"
                             /\ Len(call'[c].res) = 1
                             /\ call'[c].res[1].msg = "accountLockedv1"
                   /\ (now >= verification.blockExpiration)
                          => /\ call'[c].pc = "validatePassword"
                             /\ call'[c].res = <<>>
                             /\ call'[c].log = <<"getUserByUsername", "validatePassword">>
                   /\ verification' = verification
          /\ (StepOf(c) /\ call[c].pc = "lock" /\ ~call'[c].faulted)
                => verification'.blockExpiration = now + LOCK_DURATION_MS]_vars

\* A lock set at time 0 by a fifth wrong attempt has run out: a later call
\* found the stored expiration, passed the lockout gate and is at the credential
\* check; the expiration is still stored.
C8_Witness ==
    \E c, d \in Calls :
        /\ call[c].res = <<FreshlyLocked>>
        /\ verification.blockExpiration = LOCK_DURATION_MS
        /\ now >= verification.blockExpiration
        /\ call[d].pc = "validatePassword"
        /\ call[d].user.verification.blockExpiration = LOCK_DURATION_MS

\* C9: a login call in which a collaborator call fails ends with exactly one
\* InfrastructureError response and no fault leaving the handler.
C9_FailureGivesInfrastructureError ==
    \A c \in Calls :
        (call[c].pc = "done" /\ call[c].faulted)
            => (call[c].res = <<InfrastructureError>> /\ ~call[c].uncaught)

\* C10: when the only two calls made both present a wrong credential and both
\* are answered IncorrectCredential, they report two distinct counts n + 1 and
\* n + 2, and the stored count is n + 2.
C10_AtomicIncrement ==
    \A c, d \in Calls :
        (/\ c # d
         /\ \A e \in Calls \ {c, d} : call[e].pc = "idle"
         /\ call[c].pc = "done" /\ Len(call[c].res) = 1
         /\ call[c].res[1].msg = "incorrectPassword"
         /\ call[d].pc = "done" /\ Len(call[d].res) = 1
         /\ call[d].res[1].msg = "incorrectPassword")
            => \E n \in 0..MAX_LOGIN_ATTEMPTS :
                  /\ {call[c].res[1], call[d].res[1]}
                        = {IncorrectCredential(n + 1), IncorrectCredential(n + 2)}
                  /\ verification.loginAttempts = n + 2

\* C11: in every step the stored loginAttempts stays the same, increases, or is
\* set to 0 by the step of a call whose credential check succeeded (the call is
\* at its resetLoginAttempts).
C11_CountNeverLowered ==
    [][\/ verification'.loginAttempts >= verification.loginAttempts
       \/ /\ verification'.loginAttempts = 0
          /\ \E c \in Calls : StepOf(c) /\ call[c].pc = "reset"]_vars

\* The credential check of call c has been started.
CredentialChecked(c) ==
    \E i \in 1..Len(call[c].log) : call[c].log[i] = "validatePassword"

\* Call c has been answered by the lockout gate.
AnsweredLocked(c) ==
    \E i \in 1..Len(call[c].res) : call[c].res[i].msg = "accountLockedv1"

\* C12: the gates run in the order lookup, verification, lockout, credential,
\* and the first failing gate ends the call: the lockout gate answers only on an
\* account with both flags true; the lookup is the first collaborator called;
\* the credential check starts only in the arrival step of a call that asks for
\* the existing account, with both flags true and no lock in force at that
\* moment; and only steps of calls whose credential check has started change
\* the stored loginAttempts or blockExpiration.
C12_GateOrder ==
    /\ [](\A c \in Calls :
            /\ AnsweredLocked(c) => ~Unverified
            /\ call[c].pc # "idle" => call[c].log[1] = "getUserByUsername"
            /\ CredentialChecked(c) =>
                   /\ call[c].username = ExistingUsername
                   /\ ~Unverified
                   /\ call[c].log[2] = "validatePassword")
    /\ [][/\ \A c \in Calls :
               (CredentialChecked(c)' /\ ~CredentialChecked(c)) =>
                   /\ call[c].pc = "idle"
                   /\ ~isAccountBlocked([verification |-> verification], now)
          /\ verification' # verification =>
                 \E c \in Calls : StepOf(c) /\ CredentialChecked(c)]_vars

\* A call on an account that has its email verified but not its phone, and a
\* lock in force, has ended at the verification gate: the lockout gate did not
\* answer and the credential was not checked.
C12_Witness ==
    \E c \in Calls :
        /\ call[c].pc = "done"
        /\ verification.isEmailVerified /\ ~verification.isPhoneVerified
        /\ verification.blockExpiration # NoDate
        /\ verification.blockExpiration > now
        /\ call[c].res = <<PhoneNotVerified>>
        /\ ~CredentialChecked(c)

\* The lock stored on the account has expired.
LockExpired ==
    /\ verification.blockExpiration # NoDate
    /\ verification.blockExpiration <= now

\* C13: no step clears a stored blockExpiration and no call calls
\* unlockAccount; a call that arrives on a verified account whose lock has
\* expired goes on to the credential check and leaves the record as it is.
C13_LockNeverCleared ==
    /\ [](\A c \in Calls : \A i \in 1..Len(call[c].log) :
              call[c].log[i] # "unlockAccount")
    /\ [][/\ verification.blockExpiration # NoDate
              => verification'.blockExpiration # NoDate
          /\ \A c \in Calls :
               (Arrives(c) /\ ~Unverified /\ LockExpired)
                   => /\ call'[c].pc = "validatePassword"
                      /\ verification' = verification]_vars

\* A call that arrived after the lock had expired has ended in Success, and the
\* expired blockExpiration is still stored.
C13_Witness ==
    \E c \in Calls :
        /\ call[c].pc = "done"
        /\ Len(call[c].res) = 1
        /\ call[c].res[1].status = 200
        /\ LockExpired
        /\ verification.loginAttempts = 0

UnknownUsername == "ghost"

UserNotFound == Response(400, "userNotExists", UnknownUsername, "", "")

\* Call c has asked for a username no account has, and its lookup did not fail.
AskedUnknown(c) ==
    /\ call[c].pc # "idle"
    /\ call[c].username = UnknownUsername
    /\ ~call[c].faulted

\* C14: a login call for a username that matches no account, whose lookup does
\* not fail, ends in its arrival step answered UserNotFound and nothing else
\* (no token), having called no collaborator but the lookup, and its step
\* changes nothing stored; this holds for each such call, however many there are.
C14_UnknownUserNoEffect ==
    /\ [](\A c \in Calls :
            AskedUnknown(c) => /\ call[c].pc = "done"
                               /\ call[c].res = <<UserNotFound>>
                               /\ call[c].log = <<"getUserByUsername">>
                               /\ ~call[c].uncaught)
    /\ [][\A c \in Calls :
             (StepOf(c) /\ call'[c].username = UnknownUsername)
                 => (verification' = verification
                     /\ storedPassword' = storedPassword)]_vars

\* Every call has asked for the unknown username and has been answered
\* UserNotFound, on an account one failed attempt short of the threshold.
C14_Witness ==
    /\ \A c \in Calls : AskedUnknown(c) /\ call[c].res = <<UserNotFound>>
    /\ verification.loginAttempts = MAX_LOGIN_ATTEMPTS - 1
    /\ ~Unverified

RecoveryLength == 8

\* Response r is a Success answer.
IsSuccess(r) == r.status = 200

\* C15: a Success answer carries the recovery flag (and the recovery message)
\* exactly when the credential the call presented has 8 characters; otherwise
\* the flag is absent and the message is the ordinary one.  As only the stored
\* credential is accepted, the same holds of the stored credential in every
\* state.
C15_RecoveryFlag ==
    /\ [](\A c \in Calls : \A i \in 1..Len(call[c].res) :
            IsSuccess(call[c].res[i]) =>
                IF Len(storedPassword) = RecoveryLength
                THEN /\ call[c].res[i].flag = "randomPassword"
                     /\ call[c].res[i].msg = "recoveryLogin"
                ELSE /\ call[c].res[i].flag = "undefined"
                     /\ call[c].res[i].msg = "userLoggedIn")
    /\ [][\A c \in Calls :
             (/\ Len(call'[c].res) = Len(call[c].res) + 1
              /\ IsSuccess(call'[c].res[Len(call'[c].res)]))
                 => (call'[c].res[Len(call'[c].res)].flag = "randomPassword"
                        <=> Len(call[c].password) = RecoveryLength)]_vars

\* One call has ended in Success with the recovery flag and the recovery
\* message, on an account whose stored credential has 8 characters.
C15_Witness ==
    \E c \in Calls :
        /\ call[c].pc = "done"
        /\ Len(storedPassword) = RecoveryLength
        /\ call[c].res = <<Response(200, "recoveryLogin", "",
                                    "token:" \o ExistingUsername, "randomPassword")>>

\* A lock is in force on the stored account.
LockInForce == isAccountBlocked([verification |-> verification], now)

\* Call c is answered Success in this step.
EmitsSuccess(c) ==
    /\ Len(call'[c].res) = Len(call[c].res) + 1
    /\ IsSuccess(call'[c].res[Len(call'[c].res)])

\* C16: while a lock is in force no call is answered Success and no step sets
\* the stored loginAttempts to 0, whichever way the calls interleave.
C16_NoSuccessWhileLocked ==
    [][LockInForce =>
          /\ \A c \in Calls : ~EmitsSuccess(c)
          /\ verification'.loginAttempts # verification.loginAttempts
                 => verification'.loginAttempts # 0]_vars

\* Call c has been answered with the threshold-triggered AccountLocked.
AnsweredFreshlyLocked(c) ==
    \E i \in 1..Len(call[c].res) : call[c].res[i] = FreshlyLocked

\* C17: a call that reaches the threshold first stores the incremented count,
\* then has lockAccount store the expiration, and only then is answered
\* AccountLocked; so whenever that answer has been given a blockExpiration is
\* stored, and a call that arrives after it on the account while the stored
\* expiration is still ahead is rejected at the lockout gate.
C17_LockBeforeAnswer ==
    /\ [](\A c \in Calls :
            AnsweredFreshlyLocked(c) =>
                /\ verification.blockExpiration # NoDate
                /\ call[c].log = <<"getUserByUsername", "validatePassword",
                                   "update", "lockAccount">>)
    /\ [][\A c \in Calls :
             /\ (call'[c].pc = "lock" /\ call[c].pc # "lock") =>
                    /\ call[c].pc = "increment"
                    /\ verification'.loginAttempts = call[c].updatedLoginAttempts
                    /\ ReachedThreshold(verification'.loginAttempts)
             /\ (AnsweredFreshlyLocked(c)' /\ ~AnsweredFreshlyLocked(c)) =>
                    /\ call[c].pc = "lock"
                    /\ verification'.blockExpiration = lockAccount(now)
             /\ (/\ Arrives(c)
                 /\ \E d \in Calls : AnsweredFreshlyLocked(d)
                 /\ LockInForce) =>
                    /\ call'[c].pc = "done"
                    /\ AnsweredLocked(c)'
                    /\ ~CredentialChecked(c)'
                    /\ verification' = verification]_vars

\* The first call reached the threshold on a never-locked account and was
\* answered AccountLocked; the call after it was rejected at the lockout gate.
C17_Witness ==
    \E c, d \in Calls :
        /\ c < d
        /\ call[c].res = <<FreshlyLocked>>
        /\ call[d].pc = "done"
        /\ call[d].res = <<AccountLocked("1")>>
        /\ call[d].log = <<"getUserByUsername">>
        /\ verification.loginAttempts = MAX_LOGIN_ATTEMPTS
        /\ verification.blockExpiration = lockAccount(0)

\* C18: with one call at a time, neither the lock nor the passing of time
\* lowers the stored loginAttempts: only the step of a call whose credential
\* was correct does.  So the count is still at the threshold when the lock has
\* expired: a wrong credential presented then raises it by one and the call
\* goes on to lock again, and is answered AccountLocked, never
\* IncorrectCredential.
C18_ExpiryKeepsCount ==
    [][/\ verification'.loginAttempts < verification.loginAttempts
          => \E c \in Calls : StepOf(c) /\ call[c].pc = "reset"
      /\ \A c \in Calls :
           /\ (/\ Arrives(c) /\ ~Unverified /\ LockExpired
               /\ ReachedThreshold(verification.loginAttempts))
                  => call'[c].pc = "validatePassword"
           /\ (/\ StepOf(c) /\ call[c].pc = "increment" /\ ~call'[c].faulted
               /\ ReachedThreshold(verification.loginAttempts))
                  => /\ verification'.loginAttempts = verification.loginAttempts + 1
                     /\ call'[c].pc = "lock"
           /\ (StepOf(c) /\ call[c].pc = "lock" /\ ~call'[c].faulted)
                  => /\ verification'.loginAttempts = verification.loginAttempts
                     /\ call'[c].res = <<FreshlyLocked>>
           /\ (/\ StepOf(c) /\ Len(call'[c].res) = 1
               /\ call'[c].res[1].msg = "incorrectPassword")
                  => ~ReachedThreshold(verification.loginAttempts)]_vars

\* The first call reached the threshold and locked the account at time 0; the
\* lock ran out; the next call, with a wrong credential, raised the count above
\* the threshold and locked the account again.
C18_Witness ==
    \E c, d \in Calls :
        /\ c < d
        /\ call[c].res = <<FreshlyLocked>>
        /\ call[d].res = <<FreshlyLocked>>
        /\ verification.loginAttempts = MAX_LOGIN_ATTEMPTS + 1
        /\ verification.blockExpiration = lockAccount(lockAccount(0))

\* C19: when no collaborator fails and nothing unlocks the account, in every
\* state in which no call is in flight a stored loginAttempts at or above the
\* threshold comes with a stored blockExpiration, whichever way the calls
\* interleaved.
C19_ThresholdImpliesLock ==
    (\A c \in Calls : ~InFlight(c))
        => (verification.loginAttempts >= MAX_LOGIN_ATTEMPTS
                => verification.blockExpiration # NoDate)

\* Two overlapping calls with a wrong credential both loaded the count one
\* below the threshold on a never-locked account, both stored the threshold and
\* both locked; no call is in flight any more.
C19_Witness ==
    /\ \A c \in Calls : call[c].pc = "done" /\ call[c].res = <<FreshlyLocked>>
    /\ verification.loginAttempts = MAX_LOGIN_ATTEMPTS
    /\ verification.blockExpiration = lockAccount(0)

\* The requester of request r is an admin or is the user the request is about.
AdminOrOwner(r) ==
    /\ request[r].requester # NoRequester
    /\ \/ request[r].requester.rol = "admin"
       \/ ToString(request[r].requester.userId) = request[r].userId

\* The user request r is about exists.
TargetExists(r) == \E id \in UserIds : ToString(id) = request[r].userId

AccessDenied == ProfileResponse(403, "accessDenied", NoData)
ProfileNotFound == ProfileResponse(404, "userNotFound", NoData)

\* C20: a profile request is answered with profile data only when its
\* requester is an admin or the user it is about, and a stored profile changes
\* only in the save of an update request of such a requester, and only the
\* profile of the user the request is about; every other requester of an
\* existing user is answered 403 accessDenied, and a request about a user that
\* does not exist is answered 404 whoever asks (the lookup not failing).
C20_ProfileAccess ==
    /\ [](\A r \in Requests :
            /\ (\E i \in 1..Len(request[r].res) : request[r].res[i].status = 200)
                   => AdminOrOwner(r) /\ TargetExists(r)
            /\ request[r].pc = "save" => AdminOrOwner(r) /\ TargetExists(r)
            /\ (request[r].pc = "done" /\ ~request[r].faulted) =>
                   /\ ~TargetExists(r) => request[r].res = <<ProfileNotFound>>
                   /\ (TargetExists(r) /\ ~AdminOrOwner(r))
                          => request[r].res = <<AccessDenied>>
                   /\ (TargetExists(r) /\ AdminOrOwner(r))
                          => /\ Len(request[r].res) = 1
                             /\ request[r].res[1].status = 200
                             /\ ToString(request[r].res[1].data.userId)
                                    = request[r].userId)
    /\ [][profiles' # profiles =>
             \E r \in Requests :
                 /\ request[r].pc = "save"
                 /\ request'[r].pc = "done"
                 /\ request[r].kind = "update"
                 /\ AdminOrOwner(r)
                 /\ \A id \in UserIds :
                        ToString(id) # request[r].userId
                            => profiles'[id] = profiles[id]]_vars

\* An ordinary user's update of the admin's profile has been refused and left
\* that profile as it was, while the same user's update of their own profile
\* has been saved.
C20_Witness ==
    \E r, q \in Requests :
        /\ request[r].kind = "update"
        /\ request[r].requester = [userId |-> 2, rol |-> "user"]
        /\ request[r].userId = "1"
        /\ request[r].res = <<AccessDenied>>
        /\ request[q].kind = "update"
        /\ request[q].requester = [userId |-> 2, rol |-> "user"]
        /\ request[q].userId = "2"
        /\ request[q].pc = "done"
        /\ request[q].res = <<ProfileResponse(200, "", [userId |-> 2, rol |-> "user",
                                                      firstName |-> "Bo",
                                                      profileType |-> ""])>>
        /\ profiles[1] = DefaultProfile
        /\ profiles[2] = [firstName |-> "Bo", profileType |-> ""]

====
